---------------------------- MODULE Spec2Model ----------------------------
(***************************************************************************)
(* A model of the mass-spectrometry exploratory analysis script            *)
(* (src/src/exploratory_analysis.py) and of the autoencoder training loop  *)
(* (src/src/torch/ae.py).                                                  *)
(*                                                                         *)
(* Python indices are kept 0-based in the state (a returned index of -1 is *)
(* the value Python returns); PyAt reads a list the way Python does,       *)
(* negative indices counting from the end.                                 *)
(*                                                                         *)
(* Floating point values are modelled exactly: mz values and intensities   *)
(* are integers, a ppm error is kept as its numerator over the common      *)
(* denominator ion_mz, and a normalized intensity is a reduced fraction.   *)
(***************************************************************************)
EXTENDS Integers, Sequences, FiniteSets

VARIABLES
    \* ---- find_closest_ion_mz_index ----
    mz_axis,            \* the spectral axis (argument / all_data["samples"]["mzs"])
    ion_mz,             \* the target mz
    allowed_ppm_error,  \* module global imported from src.constants
    closest_index,      \* the scan position of the while loop
    loc_pc,             \* "scan" | "returned" | "raised" | "idle"
    loc_result,         \* the returned index, None otherwise
    \* ---- get_amino_acids_indices_in_data ----
    ions_names,         \* annotation names
    ions_mzs,           \* annotation aligned mzs
    aa_pos,             \* number of amino_acids entries the for loop has consumed
    aa_mz_indices,      \* list under construction / argument of the later stages
    aa_names,           \* list under construction
    aa_pc,              \* "loop" | "returned" | "raised" | "idle"
    aa_ret,             \* the returned pair, None otherwise
    \* ---- get_intensities_data_structure / get_tic_normalized_amino_acid_values ----
    data,               \* the sample matrix, data[row][column] (1-based in the model)
    colnames,           \* experiment identifier of every sample column
    experiment_ids,     \* list(set(colnames)): some order of the distinct identifiers
    scaling_factor,     \* module global imported from src.constants
    aa_intensities,     \* the intensity series, [analyte][experiment][replicate]
    normalized_intensities,
    int_pc,             \* "build" | "built" | "normalize" | "done" | "idle"
    \* ---- get_combat_normalized_amino_acid_values ----
    n,                  \* number_of_replicates, module global from src.constants
    unique_cols,
    batches,            \* the flattened batch label list
    combat_labels,      \* the labels handed to combat(), None before / without the call
    combat_pc,          \* "start" | "assigned" | "handed" | "raised" | "idle"
    \* ---- ae.py training loop ----
    num_train,          \* len(train_loader)
    num_test,           \* len(test_loader)
    epoch,              \* the loop variable of `for epoch in range(epochs)`
    train_i,            \* training mini-batches consumed in this epoch
    test_i,             \* held-out mini-batches consumed in this epoch
    loss_terms,         \* mini-batch losses added to `loss` in this epoch
    test_loss_terms,    \* mini-batch losses added to `test_loss` in this epoch
    optimizer_steps,    \* optimizer.step() calls so far = parameter version
    lines,              \* the epoch numbers of the loss lines printed so far
    train_pc            \* "train" | "test" | "report" | "done" | "idle"

locVars == <<mz_axis, ion_mz, allowed_ppm_error, closest_index, loc_pc, loc_result>>
aaVars == <<ions_names, ions_mzs, aa_pos, aa_mz_indices, aa_names, aa_pc, aa_ret>>
intVars == <<data, colnames, experiment_ids, scaling_factor, aa_intensities,
             normalized_intensities, int_pc>>
combatVars == <<n, unique_cols, batches, combat_labels, combat_pc>>
trainVars == <<num_train, num_test, epoch, train_i, test_i, loss_terms,
               test_loss_terms, optimizer_steps, lines, train_pc>>
vars == <<locVars, aaVars, intVars, combatVars, trainVars>>

None == "None"

\* what the operations of one component leave alone
locOthers == <<aaVars, intVars, combatVars, trainVars>>
aaOthers == <<mz_axis, ion_mz, allowed_ppm_error, closest_index, loc_pc, loc_result,
              intVars, combatVars, trainVars>>
intOthers == <<locVars, ions_names, ions_mzs, aa_pos, aa_mz_indices, aa_names, aa_pc,
               aa_ret, combatVars, trainVars>>
combatOthers == <<locVars, aaVars, intVars, trainVars>>
trainOthers == <<locVars, aaVars, intVars, combatVars>>

-----------------------------------------------------------------------------
(* Bounds of the model *)

MaxAxisLen == 3
MaxMz == 5

-----------------------------------------------------------------------------
(* Python helpers *)

Abs(x) == IF x < 0 THEN -x ELSE x

\* s[i] in Python for a list s: a negative i counts from the end
PyAt(s, i) == IF i < 0 THEN s[Len(s) + i + 1] ELSE s[i + 1]

\* range(k) as a TLA+ set
Range(k) == 0 .. (k - 1)

NonDecreasing(s) == \A i \in 1 .. (Len(s) - 1) : s[i] <= s[i + 1]
StrictlyIncreasing(s) == \A i \in 1 .. (Len(s) - 1) : s[i] < s[i + 1]

SeqsUpTo(S, lo, hi) == UNION {[1 .. k -> S] : k \in lo .. hi}

-----------------------------------------------------------------------------
(* find_closest_ion_mz_index *)

PpmScale == 1000000

\* abs(peak - ion_mz) / ion_mz * 10 ** 6, kept as its numerator over ion_mz
\* (ion_mz > 0, so two errors about the same ion compare as their numerators)
PpmNumerator(peak, ion) == Abs(peak - ion) * PpmScale

\* ppm <= allowed_ppm_error
WithinAllowedAlways(ppm_numerator, ion) == TRUE
WithinAllowed(ppm_numerator, ion) == ppm_numerator <= allowed_ppm_error * ion

\* the condition of the while loop
ScanGuard(axis, ion, ci) == PyAt(axis, ci) < ion /\ ci + 1 < Len(axis)

\* which branch of the if / elif / else is taken at scan position ci
Branch(axis, ion, ci) ==
    LET previous_peak_ppm == PpmNumerator(PyAt(axis, ci - 1), ion)
        next_peak_ppm == PpmNumerator(PyAt(axis, ci), ion)
    IN  IF previous_peak_ppm <= next_peak_ppm /\ WithinAllowed(previous_peak_ppm, ion)
        THEN "previous"
        ELSE IF previous_peak_ppm > next_peak_ppm /\ WithinAllowed(next_peak_ppm, ion)
        THEN "next"
        ELSE "raise"

RECURSIVE ScanFrom(_, _, _)
ScanFrom(axis, ion, ci) ==
    IF ScanGuard(axis, ion, ci) THEN ScanFrom(axis, ion, ci + 1) ELSE ci

\* the whole call as a function of its arguments (used by the callers)
find_closest_ion_mz_index(axis, ion) ==
    LET ci == ScanFrom(axis, ion, 0)
        b == Branch(axis, ion, ci)
    IN  IF b = "previous" THEN [raised |-> FALSE, index |-> ci - 1]
        ELSE IF b = "next" THEN [raised |-> FALSE, index |-> ci]
        ELSE [raised |-> TRUE, index |-> None]

\* the example of the specification, in units of 0.02 mz
Example == [axis |-> <<5000, 5025, 5060>>, ion |-> 5026]

TolerancesPpm == {0, 200, 250000, 400000}

LocIdle ==
    /\ closest_index = 0
    /\ loc_pc = "idle"
    /\ loc_result = None
    /\ ion_mz = 1

LocInit ==
    /\ \/ /\ mz_axis \in {s \in SeqsUpTo(1 .. MaxMz, 1, MaxAxisLen) : NonDecreasing(s)}
          /\ ion_mz \in 1 .. MaxMz
       \/ /\ mz_axis = Example.axis
          /\ ion_mz = Example.ion
    /\ allowed_ppm_error \in TolerancesPpm
    /\ closest_index = 0
    /\ loc_pc = "scan"
    /\ loc_result = None

\* one iteration of the while loop
LocScan ==
    /\ loc_pc = "scan"
    /\ ScanGuard(mz_axis, ion_mz, closest_index)
    /\ closest_index' = closest_index + 1
    /\ UNCHANGED <<mz_axis, ion_mz, allowed_ppm_error, loc_pc, loc_result>>
    /\ UNCHANGED locOthers

LocReturnPrevious ==
    /\ loc_pc = "scan"
    /\ ~ScanGuard(mz_axis, ion_mz, closest_index)
    /\ Branch(mz_axis, ion_mz, closest_index) = "previous"
    /\ loc_result' = closest_index - 1
    /\ loc_pc' = "returned"
    /\ UNCHANGED <<mz_axis, ion_mz, allowed_ppm_error, closest_index>>
    /\ UNCHANGED locOthers

LocReturnNext ==
    /\ loc_pc = "scan"
    /\ ~ScanGuard(mz_axis, ion_mz, closest_index)
    /\ Branch(mz_axis, ion_mz, closest_index) = "next"
    /\ loc_result' = closest_index
    /\ loc_pc' = "returned"
    /\ UNCHANGED <<mz_axis, ion_mz, allowed_ppm_error, closest_index>>
    /\ UNCHANGED locOthers

LocRaise ==
    /\ loc_pc = "scan"
    /\ ~ScanGuard(mz_axis, ion_mz, closest_index)
    /\ Branch(mz_axis, ion_mz, closest_index) = "raise"
    /\ loc_result' = None
    /\ loc_pc' = "raised"
    /\ UNCHANGED <<mz_axis, ion_mz, allowed_ppm_error, closest_index>>
    /\ UNCHANGED locOthers

-----------------------------------------------------------------------------
(* get_amino_acids_indices_in_data *)

NumAminoAcids == 3
MaxIons == 3

\* the names of the reference list `amino_acids` (pairs (name, _)), in list order
amino_acids == [k \in 1 .. NumAminoAcids |-> k]

\* a name that is no amino acid of the reference list
OtherIon == 0

\* ions_names.index(name): position (1-based here) of the first entry called name
FirstIndexLast(names, name) ==
    CHOOSE i \in 1 .. Len(names) :
        names[i] = name /\ \A j \in (i + 1) .. Len(names) : names[j] # name
FirstIndex(names, name) ==
    CHOOSE i \in 1 .. Len(names) :
        names[i] = name /\ \A j \in 1 .. (i - 1) : names[j] # name

NameIn(names, name) == \E i \in 1 .. Len(names) : names[i] = name

\* the axis and the aligned mzs the annotation is drawn from
AminoAxis == <<2, 4>>
AminoMzs == {2, 3, 4}

AaIdle ==
    /\ ions_names = <<>>
    /\ ions_mzs = <<>>
    /\ aa_pos = 0
    /\ aa_names = <<>>
    /\ aa_pc = "idle"
    /\ aa_ret = None

AaInit ==
    /\ mz_axis = AminoAxis
    /\ allowed_ppm_error = 0
    /\ \E k \in 0 .. MaxIons :
          /\ ions_names \in [1 .. k -> {OtherIon} \cup (1 .. NumAminoAcids)]
          /\ ions_mzs \in [1 .. k -> AminoMzs]
    /\ aa_pos = 0
    /\ aa_mz_indices = <<>>
    /\ aa_names = <<>>
    /\ aa_pc = "loop"
    /\ aa_ret = None

\* the loop body when the amino acid is annotated and its peak is found
AaMatch ==
    /\ aa_pc = "loop"
    /\ aa_pos < Len(amino_acids)
    /\ LET name == amino_acids[aa_pos + 1]
       IN  /\ NameIn(ions_names, name)
           /\ LET aa_index == FirstIndex(ions_names, name)
                  found == find_closest_ion_mz_index(mz_axis, ions_mzs[aa_index])
              IN  /\ ~found.raised
                  /\ aa_mz_indices' = Append(aa_mz_indices, found.index)
                  /\ aa_names' = Append(aa_names, name)
    /\ aa_pos' = aa_pos + 1
    /\ UNCHANGED <<ions_names, ions_mzs, aa_pc, aa_ret>>
    /\ UNCHANGED aaOthers

\* the loop body when the locator raises: nothing catches the ValueError
AaRaiseCaught ==
    /\ aa_pc = "loop"
    /\ aa_pos < Len(amino_acids)
    /\ LET name == amino_acids[aa_pos + 1]
       IN  /\ NameIn(ions_names, name)
           /\ find_closest_ion_mz_index(mz_axis,
                  ions_mzs[FirstIndex(ions_names, name)]).raised
    /\ aa_pos' = aa_pos + 1
    /\ UNCHANGED <<ions_names, ions_mzs, aa_pc, aa_mz_indices, aa_names, aa_ret>>
    /\ UNCHANGED aaOthers
AaRaise ==
    /\ aa_pc = "loop"
    /\ aa_pos < Len(amino_acids)
    /\ LET name == amino_acids[aa_pos + 1]
       IN  /\ NameIn(ions_names, name)
           /\ find_closest_ion_mz_index(mz_axis,
                  ions_mzs[FirstIndex(ions_names, name)]).raised
    /\ aa_pc' = "raised"
    /\ UNCHANGED <<ions_names, ions_mzs, aa_pos, aa_mz_indices, aa_names, aa_ret>>
    /\ UNCHANGED aaOthers

\* the else branch: the name is printed and the loop goes on
AaSkip ==
    /\ aa_pc = "loop"
    /\ aa_pos < Len(amino_acids)
    /\ ~NameIn(ions_names, amino_acids[aa_pos + 1])
    /\ aa_pos' = aa_pos + 1
    /\ UNCHANGED <<ions_names, ions_mzs, aa_mz_indices, aa_names, aa_pc, aa_ret>>
    /\ UNCHANGED aaOthers

AaReturn ==
    /\ aa_pc = "loop"
    /\ aa_pos = Len(amino_acids)
    /\ aa_ret' = <<aa_mz_indices, aa_names>>
    /\ aa_pc' = "returned"
    /\ UNCHANGED <<ions_names, ions_mzs, aa_pos, aa_mz_indices, aa_names>>
    /\ UNCHANGED aaOthers

-----------------------------------------------------------------------------
(* Exact arithmetic for the normalized values: a value is a reduced fraction;
   a division by zero gives NotFinite (numpy's inf / nan), which every later
   operation keeps *)

RECURSIVE GCD(_, _)
GCD(a, b) == IF b = 0 THEN a ELSE GCD(b, a % b)

NotFinite == [num |-> 0, den |-> 0]

Frac(a, b) ==
    IF b = 0 THEN NotFinite
    ELSE LET g == GCD(Abs(a), Abs(b))
             sign == IF b < 0 THEN -1 ELSE 1
         IN  [num |-> sign * (a \div g), den |-> sign * (b \div g)]

Whole(a) == [num |-> a, den |-> 1]

RatDiv(x, y) ==
    IF x = NotFinite \/ y = NotFinite THEN NotFinite
    ELSE Frac(x.num * y.den, x.den * y.num)

RatMul(x, y) ==
    IF x = NotFinite \/ y = NotFinite THEN NotFinite
    ELSE Frac(x.num * y.num, x.den * y.den)

-----------------------------------------------------------------------------
(* get_intensities_data_structure and get_tic_normalized_amino_acid_values *)

MaxCols == 3

\* the rows (peaks) of the sample matrix, the intensities of its cells and the
\* experiment identifiers of its columns
PeakRows == {1, 2}
Intensities == {0, 1}
ExperimentNames == {"ctrl", "pert"}

NumRows(d) == Len(d)

\* data[mz_index, c] for Python indices mz_index (negative: from the end) and c
Cell(d, mz_index, c) == PyAt(PyAt(d, mz_index), c)

\* numpy.where(numpy.array(colnames) == id)[0]: the 0-based columns called id,
\* in increasing order
ColumnsOfDecreasing(names, id) ==
    LET F[k \in 0 .. Len(names)] ==
            IF k = 0 THEN <<>>
            ELSE IF names[k] = id THEN <<k - 1>> \o F[k - 1] ELSE F[k - 1]
    IN  F[Len(names)]
ColumnsOf(names, id) ==
    LET F[k \in 0 .. Len(names)] ==
            IF k = 0 THEN <<>>
            ELSE IF names[k] = id THEN Append(F[k - 1], k - 1) ELSE F[k - 1]
    IN  F[Len(names)]

\* data[mz_index, columns]
RowAt(d, mz_index, columns) ==
    [r \in 1 .. Len(columns) |-> Cell(d, mz_index, columns[r])]

\* the body of the outer loop of get_intensities_data_structure
ExperimentsOf(d, names, ids, mz_index) ==
    [j \in 1 .. Len(ids) |-> RowAt(d, mz_index, ColumnsOf(names, ids[j]))]

RECURSIVE SumSeq(_)
SumSeq(s) == IF s = <<>> THEN 0 ELSE s[1] + SumSeq(Tail(s))

\* numpy.sum(data[:, columns]): every row, the given columns
SumColumns(d, columns) ==
    SumSeq([i \in 1 .. Len(d) |-> SumSeq(RowAt(d, i - 1, columns))])

\* the divisor of experiment ids[j]
ExperimentTotal(d, names, ids, j) == SumColumns(d, ColumnsOf(names, ids[j]))

\* aa_intensities[i][j] / total * scaling_factor, elementwise
TicValuesUnscaled(series, total) ==
    [r \in 1 .. Len(series) |-> RatDiv(Whole(series[r]), Whole(total))]
TicValues(series, total) ==
    [r \in 1 .. Len(series) |->
        RatMul(RatDiv(Whole(series[r]), Whole(total)), Whole(scaling_factor))]

Permutations(S) ==
    {s \in [1 .. Cardinality(S) -> S] : \A i, j \in 1 .. Cardinality(S) : s[i] = s[j] => i = j}

NamesIn(names) == {names[c] : c \in 1 .. Len(names)}

IntIdle ==
    /\ data = <<>>
    /\ experiment_ids = <<>>
    /\ scaling_factor = 1
    /\ aa_intensities = <<>>
    /\ normalized_intensities = <<>>
    /\ int_pc = "idle"

IntInit ==
    /\ \E c \in 1 .. MaxCols :
          /\ colnames \in [1 .. c -> ExperimentNames]
          /\ data \in [1 .. Cardinality(PeakRows) -> [1 .. c -> Intensities]]
          \* every sample has ion current: no column of the matrix is all zero
          /\ \A k \in 1 .. c : \E i \in 1 .. Cardinality(PeakRows) : data[i][k] > 0
    /\ experiment_ids \in Permutations(NamesIn(colnames))
    /\ scaling_factor = 3
    /\ aa_mz_indices \in SeqsUpTo(Range(Cardinality(PeakRows)), 1, Cardinality(PeakRows))
    /\ aa_intensities = <<>>
    /\ normalized_intensities = <<>>
    /\ int_pc = "build"

\* one iteration of `for mz_index in aa_mz_indices`
IntBuildRow ==
    /\ int_pc = "build"
    /\ Len(aa_intensities) < Len(aa_mz_indices)
    /\ aa_intensities' =
          Append(aa_intensities,
                 ExperimentsOf(data, colnames, experiment_ids,
                               aa_mz_indices[Len(aa_intensities) + 1]))
    /\ UNCHANGED <<data, colnames, experiment_ids, scaling_factor,
                   normalized_intensities, int_pc>>
    /\ UNCHANGED intOthers

IntBuildReturn ==
    /\ int_pc = "build"
    /\ Len(aa_intensities) = Len(aa_mz_indices)
    /\ int_pc' = "built"
    /\ UNCHANGED <<data, colnames, experiment_ids, scaling_factor, aa_intensities,
                   normalized_intensities>>
    /\ UNCHANGED intOthers

\* one iteration of `for i in range(len(aa_intensities))`
TicRow ==
    /\ int_pc = "built"
    /\ Len(normalized_intensities) < Len(aa_intensities)
    /\ LET i == Len(normalized_intensities) + 1
       IN  normalized_intensities' =
              Append(normalized_intensities,
                     [j \in 1 .. Len(experiment_ids) |->
                         TicValues(aa_intensities[i][j],
                                   ExperimentTotal(data, colnames, experiment_ids, j))])
    /\ UNCHANGED <<data, colnames, experiment_ids, scaling_factor, aa_intensities,
                   int_pc>>
    /\ UNCHANGED intOthers

TicReturn ==
    /\ int_pc = "built"
    /\ Len(normalized_intensities) = Len(aa_intensities)
    /\ int_pc' = "done"
    /\ UNCHANGED <<data, colnames, experiment_ids, scaling_factor, aa_intensities,
                   normalized_intensities>>
    /\ UNCHANGED intOthers

-----------------------------------------------------------------------------
(* get_combat_normalized_amino_acid_values, up to the call of combat() *)

MaxSamples == 6
MaxReplicates == 4

RECURSIVE Flatten(_)
Flatten(l) == IF l = <<>> THEN <<>> ELSE l[1] \o Flatten(Tail(l))

\* flatten([[i, i, i] for i in range(len(colnames) // n)])
Batches(names, reps) ==
    Flatten([k \in 1 .. (Len(names) \div reps) |-> <<k - 1, k - 1, k - 1>>])

\* [colnames[i] + sharp + str(i) for i in range(len(colnames))]
UniqueCols(names) == [k \in 1 .. Len(names) |-> <<names[k], k - 1>>]

CombatIdle ==
    /\ n = 1
    /\ unique_cols = <<>>
    /\ batches = <<>>
    /\ combat_labels = None
    /\ combat_pc = "idle"

CombatInit ==
    /\ colnames \in SeqsUpTo(ExperimentNames, 0, MaxSamples)
    /\ n \in 1 .. MaxReplicates
    /\ unique_cols = <<>>
    /\ batches = <<>>
    /\ combat_labels = None
    /\ combat_pc = "start"

\* lines 89-95: the column names are made unique and the batches assigned
CombatAssign ==
    /\ combat_pc = "start"
    /\ unique_cols' = UniqueCols(colnames)
    /\ batches' = Batches(colnames, n)
    /\ combat_pc' = "assigned"
    /\ UNCHANGED <<n, combat_labels>>
    /\ UNCHANGED combatOthers

\* line 98: a frame built from an empty list has no column to call "batch"
CombatRaiseColumns ==
    /\ combat_pc = "assigned"
    /\ batches = <<>>
    /\ combat_pc' = "raised"
    /\ UNCHANGED <<n, unique_cols, batches, combat_labels>>
    /\ UNCHANGED combatOthers

\* line 99: the index must have one entry per label
CombatRaiseIndex ==
    /\ combat_pc = "assigned"
    /\ batches # <<>>
    /\ Len(batches) # Len(unique_cols)
    /\ combat_pc' = "raised"
    /\ UNCHANGED <<n, unique_cols, batches, combat_labels>>
    /\ UNCHANGED combatOthers

\* line 101: batches["batch"], indexed by unique_cols, is handed to combat()
CombatCall ==
    /\ combat_pc = "assigned"
    /\ batches # <<>>
    /\ Len(batches) = Len(unique_cols)
    /\ combat_labels' = batches
    /\ combat_pc' = "handed"
    /\ UNCHANGED <<n, unique_cols, batches>>
    /\ UNCHANGED combatOthers

-----------------------------------------------------------------------------
(* The training loop of ae.py *)

MaxTrainBatches == 3
MaxTestBatches == 2

epochs == 200

TrainIdle ==
    /\ num_train = 1
    /\ num_test = 1
    /\ epoch = 0
    /\ train_i = 0
    /\ test_i = 0
    /\ loss_terms = 0
    /\ test_loss_terms = 0
    /\ optimizer_steps = 0
    /\ lines = <<>>
    /\ train_pc = "idle"

\* both loaders hold at least one mini-batch (line 135 and 136 divide by their
\* lengths)
TrainInit ==
    /\ num_train \in 1 .. MaxTrainBatches
    /\ num_test \in 1 .. MaxTestBatches
    /\ epoch = 0
    /\ train_i = 0
    /\ test_i = 0
    /\ loss_terms = 0
    /\ test_loss_terms = 0
    /\ optimizer_steps = 0
    /\ lines = <<>>
    /\ train_pc = "train"

\* lines 110-126: one training mini-batch
TrainBatch ==
    /\ train_pc = "train"
    /\ train_i < num_train
    /\ optimizer_steps' = optimizer_steps + 1
    /\ loss_terms' = loss_terms + 1
    /\ train_i' = train_i + 1
    /\ UNCHANGED <<num_train, num_test, epoch, test_i, test_loss_terms, lines, train_pc>>
    /\ UNCHANGED trainOthers

\* line 128: the training loader is exhausted, test_loss = 0
TrainExhausted ==
    /\ train_pc = "train"
    /\ train_i = num_train
    /\ test_loss_terms' = 0
    /\ train_pc' = "test"
    /\ UNCHANGED <<num_train, num_test, epoch, train_i, test_i, loss_terms,
                   optimizer_steps, lines>>
    /\ UNCHANGED trainOthers

\* lines 129-132: one held-out mini-batch, forward pass only
TestBatchStepping ==
    /\ train_pc = "test"
    /\ test_i < num_test
    /\ optimizer_steps' = optimizer_steps + 1
    /\ test_loss_terms' = test_loss_terms + 1
    /\ test_i' = test_i + 1
    /\ UNCHANGED <<num_train, num_test, epoch, train_i, loss_terms, lines, train_pc>>
    /\ UNCHANGED trainOthers
TestBatch ==
    /\ train_pc = "test"
    /\ test_i < num_test
    /\ test_loss_terms' = test_loss_terms + 1
    /\ test_i' = test_i + 1
    /\ UNCHANGED <<num_train, num_test, epoch, train_i, loss_terms, optimizer_steps,
                   lines, train_pc>>
    /\ UNCHANGED trainOthers

\* lines 135-139: the held-out loader is exhausted, the epoch's line is printed
Report ==
    /\ train_pc = "test"
    /\ test_i = num_test
    /\ lines' = Append(lines, epoch + 1)
    /\ train_pc' = "report"
    /\ UNCHANGED <<num_train, num_test, epoch, train_i, test_i, loss_terms,
                   test_loss_terms, optimizer_steps>>
    /\ UNCHANGED trainOthers

\* line 108 and 109: range(epochs) yields the next epoch, loss = 0
NextEpoch ==
    /\ train_pc = "report"
    /\ epoch + 1 < epochs
    /\ epoch' = epoch + 1
    /\ loss_terms' = 0
    /\ train_i' = 0
    /\ test_i' = 0
    /\ train_pc' = "train"
    /\ UNCHANGED <<num_train, num_test, test_loss_terms, optimizer_steps, lines>>
    /\ UNCHANGED trainOthers

\* line 108: range(epochs) is exhausted
Finish ==
    /\ train_pc = "report"
    /\ epoch + 1 = epochs
    /\ train_pc' = "done"
    /\ UNCHANGED <<num_train, num_test, epoch, train_i, test_i, loss_terms,
                   test_loss_terms, optimizer_steps, lines>>
    /\ UNCHANGED trainOthers

-----------------------------------------------------------------------------
(* Specifications: each operation is run from every input within the bounds *)

LocatorInit ==
    /\ LocInit /\ AaIdle /\ aa_mz_indices = <<>> /\ IntIdle /\ colnames = <<>>
    /\ CombatIdle /\ TrainIdle

LocNext == LocScan \/ LocReturnPrevious \/ LocReturnNext \/ LocRaise

SpecLocator == LocatorInit /\ [][LocNext]_vars

AminoAcidsInit ==
    /\ AaInit /\ LocIdle /\ IntIdle /\ colnames = <<>> /\ CombatIdle /\ TrainIdle

AaNext == AaMatch \/ AaRaise \/ AaSkip \/ AaReturn

SpecAminoAcids == AminoAcidsInit /\ [][AaNext]_vars

IntensitiesInit ==
    /\ IntInit /\ LocIdle /\ mz_axis = <<>> /\ allowed_ppm_error = 0 /\ AaIdle
    /\ CombatIdle /\ TrainIdle

IntNext == IntBuildRow \/ IntBuildReturn \/ TicRow \/ TicReturn

SpecIntensities == IntensitiesInit /\ [][IntNext]_vars

CombatSpecInit ==
    /\ CombatInit /\ LocIdle /\ mz_axis = <<>> /\ allowed_ppm_error = 0 /\ AaIdle
    /\ aa_mz_indices = <<>> /\ IntIdle /\ TrainIdle

CombatNext == CombatAssign \/ CombatRaiseColumns \/ CombatRaiseIndex \/ CombatCall

SpecCombat == CombatSpecInit /\ [][CombatNext]_vars

TrainingInit ==
    /\ TrainInit /\ LocIdle /\ mz_axis = <<>> /\ allowed_ppm_error = 0 /\ AaIdle
    /\ aa_mz_indices = <<>> /\ IntIdle /\ colnames = <<>> /\ CombatIdle

TrainNext == TrainBatch \/ TrainExhausted \/ TestBatch \/ Report \/ NextEpoch \/ Finish

\* the script is the only thread and runs on as long as it has a step to take
SpecTrain == TrainingInit /\ [][TrainNext]_vars /\ WF_vars(TrainNext)

-----------------------------------------------------------------------------
(* Properties of find_closest_ion_mz_index (SpecLocator) *)

LocFinished == loc_pc \in {"returned", "raised"}

\* the ppm error of axis entry i (1-based) is at most allowed_ppm_error
EntryWithinTolerance(i) ==
    Abs(mz_axis[i] - ion_mz) * PpmScale <= allowed_ppm_error * ion_mz

SomeEntryWithinTolerance == \E i \in 1 .. Len(mz_axis) : EntryWithinTolerance(i)

\* 0-based position of the first axis entry not less than the target; the last
\* position when every entry is less
FirstNotLess ==
    IF \E i \in 1 .. Len(mz_axis) : mz_axis[i] >= ion_mz
    THEN (CHOOSE i \in 1 .. Len(mz_axis) :
              mz_axis[i] >= ion_mz /\ \A j \in 1 .. (i - 1) : mz_axis[j] < ion_mz) - 1
    ELSE Len(mz_axis) - 1

\* of the positions immediately before and at FirstNotLess, the one with the
\* smaller error, the lower one on a tie
BestNeighbour ==
    LET c == {q \in {FirstNotLess - 1, FirstNotLess} : q >= 0}
        err(q) == Abs(mz_axis[q + 1] - ion_mz)
    IN  CHOOSE q \in c : \A r \in c : err(q) < err(r) \/ (err(q) = err(r) /\ q <= r)

\* C1: on a strictly increasing axis and a target within allowed_ppm_error of
\* some axis entry, the call returns, and it returns the position with the
\* smaller ppm error of the two positions immediately before and at the first
\* entry not less than the target (the lower position on a tie).
C1_ReturnsBestNeighbour ==
    (LocFinished /\ StrictlyIncreasing(mz_axis) /\ SomeEntryWithinTolerance)
        => (loc_pc = "returned" /\ loc_result = BestNeighbour)

\* C2: on a non-empty strictly increasing axis and a target that no axis entry
\* is within allowed_ppm_error of, the call raises and returns no index.
C2_RaisesWhenNoEntryWithinTolerance ==
    (LocFinished /\ StrictlyIncreasing(mz_axis) /\ ~SomeEntryWithinTolerance)
        => (loc_pc = "raised" /\ loc_result = None)

\* a call that scanned past the first entry of a longer axis and raised
C2_Witness ==
    /\ loc_pc = "raised"
    /\ StrictlyIncreasing(mz_axis)
    /\ Len(mz_axis) >= 2
    /\ closest_index >= 1
    /\ allowed_ppm_error > 0
    /\ ~SomeEntryWithinTolerance

\* C10: on a non-empty non-decreasing axis and a positive target, a returned
\* index i satisfies 0 <= i < len(mz_axis), axis[i] is within allowed_ppm_error
\* of the target, and i attains the minimum ppm error over the entire axis.
C10_ReturnedIndexInRangeAndGloballyClosest ==
    (loc_pc = "returned" /\ NonDecreasing(mz_axis) /\ ion_mz > 0)
        => /\ 0 <= loc_result
           /\ loc_result < Len(mz_axis)
           /\ EntryWithinTolerance(loc_result + 1)
           /\ \A i \in 1 .. Len(mz_axis) :
                 Abs(mz_axis[loc_result + 1] - ion_mz) <= Abs(mz_axis[i] - ion_mz)

-----------------------------------------------------------------------------
(* Properties of get_amino_acids_indices_in_data (SpecAminoAcids) *)

AaFinished == aa_pc \in {"returned", "raised"}

\* 1-based position of the first annotation entry called name
FirstEntryNamed(name) ==
    CHOOSE i \in 1 .. Len(ions_names) :
        ions_names[i] = name /\ \A j \in 1 .. Len(ions_names) : ions_names[j] = name => i <= j

Annotated(name) == \E i \in 1 .. Len(ions_names) : ions_names[i] = name

\* the locator fails for the aligned mz of an annotated amino acid
LookupFails(name) ==
    find_closest_ion_mz_index(mz_axis, ions_mzs[FirstEntryNamed(name)]).raised

SomeLookupFails ==
    \E k \in 1 .. Len(amino_acids) :
        Annotated(amino_acids[k]) /\ LookupFails(amino_acids[k])

\* C3: if the peak locator fails for the aligned mz of any annotated amino acid
\* of the reference list, the error propagates and the function returns no
\* index / name lists, however many earlier amino acids were matched.
C3_LookupFailureAborts ==
    (AaFinished /\ SomeLookupFails) => (aa_pc = "raised" /\ aa_ret = None)

\* the call raised after it had matched an amino acid and skipped another
C3_Witness ==
    /\ aa_pc = "raised"
    /\ Len(aa_names) >= 1
    /\ aa_pos > Len(aa_names)
    /\ aa_ret = None

\* C4: when every lookup succeeds the call returns; aa_names is the reference
\* names that are annotated, in reference order (the others are skipped), and
\* aa_mz_indices[k] is the locator's index for the aligned mz of the first
\* annotation entry called aa_names[k].
C4_ReturnsAnnotatedInReferenceOrder ==
    LET IsAnnotated(name) == Annotated(name)
        expected_names == SelectSeq(amino_acids, IsAnnotated)
    IN  /\ (AaFinished /\ ~SomeLookupFails) => aa_pc = "returned"
        /\ aa_pc = "returned" =>
              /\ aa_ret = <<aa_mz_indices, aa_names>>
              /\ aa_names = expected_names
              /\ Len(aa_mz_indices) = Len(aa_names)
              /\ \A k \in 1 .. Len(aa_names) :
                    aa_mz_indices[k] =
                        find_closest_ion_mz_index(
                            mz_axis, ions_mzs[FirstEntryNamed(aa_names[k])]).index

\* a return with two matches out of reference order in the annotation, one
\* amino acid skipped, and a name annotated twice with different mzs
C4_Witness ==
    /\ aa_pc = "returned"
    /\ Len(aa_names) = 2
    /\ Len(ions_names) = 3
    /\ ions_names[1] > ions_names[2]
    /\ ions_names[2] = ions_names[3]
    /\ ions_mzs[2] # ions_mzs[3]
    /\ aa_mz_indices[1] # aa_mz_indices[2]

-----------------------------------------------------------------------------
(* Properties of get_intensities_data_structure and of
   get_tic_normalized_amino_acid_values (SpecIntensities) *)

\* the 1-based columns of experiment e
ColumnSet(e) == {c \in 1 .. Len(colnames) : colnames[c] = e}

\* the r-th smallest element of a set of numbers
NthSmallest(S, r) == CHOOSE c \in S : Cardinality({d \in S : d < c}) = r - 1

\* C9: for every matched index m (in aa_mz_indices order) and every distinct
\* experiment e of colnames, the series is data[m, c] for exactly the columns c
\* with colnames[c] = e, in increasing column order; so the series lengths of
\* an analyte sum to the number of columns.
C9_SeriesAreTheExperimentColumns ==
    int_pc \in {"built", "done"} =>
        /\ \A e \in NamesIn(colnames) :
              Cardinality({j \in 1 .. Len(experiment_ids) : experiment_ids[j] = e}) = 1
        /\ Len(aa_intensities) = Len(aa_mz_indices)
        /\ \A k \in 1 .. Len(aa_intensities) :
              /\ Len(aa_intensities[k]) = Len(experiment_ids)
              /\ \A j \in 1 .. Len(experiment_ids) :
                    LET S == ColumnSet(experiment_ids[j])
                        series == aa_intensities[k][j]
                    IN  /\ Len(series) = Cardinality(S)
                        /\ \A r \in 1 .. Len(series) :
                              series[r] = data[aa_mz_indices[k] + 1][NthSmallest(S, r)]
              /\ SumSeq([j \in 1 .. Len(experiment_ids) |-> Len(aa_intensities[k][j])])
                    = Len(colnames)

\* two analytes over interleaved columns whose replicates differ
C9_Witness ==
    /\ int_pc = "built"
    /\ colnames = <<"ctrl", "pert", "ctrl">>
    /\ aa_mz_indices = <<1, 0>>
    /\ data[2][1] # data[2][3]
    /\ data[1] # data[2]
    /\ Len(aa_intensities) = 2

SampleTic(c) == SumSeq([i \in 1 .. Len(data) |-> data[i][c]])

\* C6: the divisor applied to a replicate intensity is the TIC of that
\* replicate's own sample column, whatever the other replicate columns of the
\* experiment hold.
C6_DivisorIsOwnSampleTic ==
    int_pc = "done" =>
        \A i \in 1 .. Len(aa_intensities) :
            \A j \in 1 .. Len(experiment_ids) :
                \A r \in 1 .. Len(aa_intensities[i][j]) :
                    normalized_intensities[i][j][r] =
                        RatMul(RatDiv(Whole(aa_intensities[i][j][r]),
                                      Whole(SampleTic(
                                          NthSmallest(ColumnSet(experiment_ids[j]), r)))),
                               Whole(scaling_factor))

-----------------------------------------------------------------------------
(* Properties of get_combat_normalized_amino_acid_values (SpecCombat) *)

\* C7: for every number of sample columns and every replicate count n, the
\* labels handed to combat() are one per sample column, sample k (0-based)
\* labelled k // n.
C7_OneLabelPerSampleInGroupsOfN ==
    combat_pc = "handed" =>
        /\ Len(combat_labels) = Len(colnames)
        /\ \A k \in 1 .. Len(combat_labels) : combat_labels[k] = (k - 1) \div n

-----------------------------------------------------------------------------
(* Properties of the training loop (SpecTrain) *)

\* the loss lines printed so far are numbered 1, 2, ... in order, one per
\* finished epoch, and the optimizer has stepped once per training mini-batch
TrainingInvariant ==
    /\ lines = [k \in 1 .. Len(lines) |-> k]
    /\ Len(lines) = (IF train_pc \in {"report", "done"} THEN epoch + 1 ELSE epoch)
    /\ optimizer_steps = epoch * num_train + train_i
    /\ train_pc = "done" => Len(lines) = epochs

TrainingStep ==
    \* a line is printed after every training mini-batch of the epoch has been
    \* stepped and then every held-out mini-batch evaluated
    /\ lines' # lines =>
          /\ train_i = num_train /\ loss_terms = num_train
          /\ test_i = num_test /\ test_loss_terms = num_test
          /\ optimizer_steps = (epoch + 1) * num_train
          /\ lines' = Append(lines, epoch + 1)
    \* the held-out pass starts after the epoch's last training mini-batch
    /\ test_i' > test_i => train_i = num_train /\ train_pc = "test"
    \* one optimizer step per training mini-batch, none elsewhere
    /\ train_i' > train_i => optimizer_steps' = optimizer_steps + 1
    /\ optimizer_steps' # optimizer_steps => train_i' = train_i + 1
    /\ train_pc = "test" => optimizer_steps' = optimizer_steps

\* C8: the loop ends after exactly `epochs` iterations with one loss line per
\* epoch, numbered 1..epochs in order; a line is printed only after all training
\* mini-batches of the epoch were stepped and then all held-out mini-batches
\* evaluated; the optimizer steps once per training mini-batch and never
\* during the held-out pass.
C8_TrainingLoop ==
    /\ []TrainingInvariant
    /\ [][TrainingStep]_vars
    /\ <>(train_pc = "done")

\* the script finished its last epoch over several mini-batches of each kind
C8_Witness ==
    /\ train_pc = "done"
    /\ num_train = MaxTrainBatches
    /\ num_test = MaxTestBatches
    /\ Len(lines) = epochs
    /\ optimizer_steps = epochs * num_train

=============================================================================
